---- MODULE Spec2Model ----
(***************************************************************************)
(* Website-Status-Checker: the per-URL check state machine                 *)
(* (WebsiteStatusChecker.check_website), the concurrent batch              *)
(* (check_websites_batch, an asyncio.Semaphore and asyncio.gather) and the *)
(* batch orchestrator (BatchProcessor.process_file / process_dataframe /   *)
(* read_input_file).                                                       *)
(*                                                                         *)
(* asyncio is cooperative: the code between two awaits is one atomic step. *)
(* The awaits of a check are the GET (session.get) and the back-off sleep; *)
(* the awaits of the orchestrator are the gather and the 0.1 s pause.      *)
(***************************************************************************)
EXTENDS Integers, Sequences, FiniteSets, TLC

(***************************************************************************)
(* Bounds of the model                                                     *)
(***************************************************************************)
MaxRows == 3
MaxConcurrent == 2
MaxRetry == 2
MaxBatchSize == 2
MaxRequests == 3

(***************************************************************************)
(* Values                                                                  *)
(***************************************************************************)
None == "None"

\* a missing cell / blank line of the input; float('nan') in a list of URLs
NaN == "<NaN>"
\* a non-scalar element of a URL list (a list of two strings)
BadObj == "<list>"

RawUrls == {"https://a.io", "A.io", "https://b.io", "not-a-url"}

StatusResult == {"ACTIVE", "INACTIVE", "ERROR", "TIMEOUT", "INVALID_URL"}

ErrorCategory == {"DNS_ERROR", "CONNECTION_ERROR", "SSL_ERROR", "TIMEOUT_ERROR",
                  "HTTP_ERROR", "INVALID_URL_ERROR", "UNKNOWN_ERROR"}

Min(a, b) == IF a < b THEN a ELSE b

(***************************************************************************)
(* normalize_url on the inputs of the model.                               *)
(*   NaN            : pd.isna(url)                        -> None          *)
(*   BadObj         : "if not url or pd.isna(url)" on an array raises      *)
(*                    ValueError, outside the try block                    *)
(*   "not-a-url"    : no scheme, no "www.", no "."        -> None          *)
(*   "A.io"         : bare domain -> "https://" + url, netloc lowercased   *)
(*   "https://x.io" : already clean                                        *)
(***************************************************************************)
normalize_raises(url) == url = BadObj

\* Python's str operations, on the characters the URLs of the model are
\* written with
Uppers == "ABCDEFGHIJKLMNOPQRSTUVWXYZ"
Lowers == "abcdefghijklmnopqrstuvwxyz"
Digits == "0123456789"

CharAt(s, i) == SubSeq(s, i, i)
Chars(s) == {CharAt(s, i) : i \in 1..Len(s)}

AlphaChars == Chars(Uppers) \cup Chars(Lowers)
DomainChars == AlphaChars \cup Chars(Digits) \cup {".", "-"}

\* c.lower() of the upper-case letters
ToLower ==
    [c \in Chars(Uppers) |->
        CharAt(Lowers, CHOOSE i \in 1..Len(Uppers) : CharAt(Uppers, i) = c)]

\* c.lower()
LowerChar(c) == IF c \in DOMAIN ToLower THEN ToLower[c] ELSE c

\* s.lower()
RECURSIVE str_lower(_)
str_lower(s) == IF s = "" THEN "" ELSE LowerChar(Head(s)) \o str_lower(Tail(s))

\* s.isalpha()
str_isalpha(s) == s # "" /\ Chars(s) \subseteq AlphaChars

\* sub in s
str_in(sub, s) ==
    \E i \in 1..(Len(s) - Len(sub) + 1) : SubSeq(s, i, i + Len(sub) - 1) = sub

\* s.startswith(prefix), s.endswith(suffix)
str_startswith(s, prefix) ==
    Len(s) >= Len(prefix) /\ SubSeq(s, 1, Len(prefix)) = prefix
str_endswith(s, suffix) ==
    Len(s) >= Len(suffix) /\ SubSeq(s, Len(s) - Len(suffix) + 1, Len(s)) = suffix

\* s.strip(), for the blank
RECURSIVE str_strip(_)
str_strip(s) ==
    IF s = "" THEN ""
    ELSE IF Head(s) = " " THEN str_strip(Tail(s))
    ELSE IF CharAt(s, Len(s)) = " " THEN str_strip(SubSeq(s, 1, Len(s) - 1))
    ELSE s

\* the position of the first character of s that is in cs, Len(s) + 1 if none
FirstOf(s, cs) ==
    IF \E i \in 1..Len(s) : CharAt(s, i) \in cs
    THEN CHOOSE i \in 1..Len(s) :
             /\ CharAt(s, i) \in cs
             /\ \A j \in 1..(i - 1) : CharAt(s, j) \notin cs
    ELSE Len(s) + 1

\* the position of the last character of s that is in cs, 0 if none
LastOf(s, cs) ==
    IF \E i \in 1..Len(s) : CharAt(s, i) \in cs
    THEN CHOOSE i \in 1..Len(s) :
             /\ CharAt(s, i) \in cs
             /\ \A j \in (i + 1)..Len(s) : CharAt(s, j) \notin cs
    ELSE 0

\* s[i:], 1-based
From(s, i) == SubSeq(s, i, Len(s))

\* the entries normalize_url skips as obviously invalid
invalid_patterns ==
    {"nan", "null", "none", "n/a", "tbd", "coming soon", "under construction",
     "pending", "private", "confidential", "internal", "localhost",
     "example.com", "test.com", "sample.com", "domain.com"}

\* the non-HTTP protocols
NonHttpPrefixes == {"mailto:", "tel:", "ftp:", "file:", "javascript:", "data:"}

\* re.match(r'^[a-zA-Z0-9.-]+\.[a-zA-Z]{2,}', url)
LooksLikeDomain(url) ==
    \E k \in 2..(Len(url) - 2) :
        /\ CharAt(url, k) = "."
        /\ CharAt(url, k + 1) \in AlphaChars
        /\ CharAt(url, k + 2) \in AlphaChars
        /\ \A j \in 1..(k - 1) : CharAt(url, j) \in DomainChars

\* "Handle common URL formats": the URL with its scheme, None when the string
\* is neither a URL nor something that looks like a domain
WithScheme(url) ==
    IF str_startswith(url, "http://") \/ str_startswith(url, "https://") THEN url
    ELSE IF str_startswith(url, "www.") THEN "https://" \o url
    ELSE IF str_in(".", url) /\ LooksLikeDomain(url) THEN "https://" \o url
    ELSE None

\* urlparse of a URL that starts with http:// or https://
urlparse(url) ==
    LET scheme == IF str_startswith(url, "https://") THEN "https" ELSE "http"
        rest == From(url, Len(scheme) + 4)
        e == FirstOf(rest, {"/", "?", "#"})
        after == From(rest, e)
    IN [scheme |-> scheme,
        netloc |-> SubSeq(rest, 1, e - 1),
        path |-> SubSeq(after, 1, FirstOf(after, {"?", "#"}) - 1)]

\* urlparse raises ValueError("Invalid IPv6 URL") on a bracket without its pair
urlparse_raises(url) ==
    LET netloc == urlparse(url).netloc IN
    str_in("[", netloc) # str_in("]", netloc)

\* ParseResult.hostname: without user info, port and brackets, lowercased
hostname(netloc) ==
    LET hostinfo == From(netloc, LastOf(netloc, {"@"}) + 1)
        open == FirstOf(hostinfo, {"["})
        bracketed == From(hostinfo, open + 1)
    IN str_lower(IF open <= Len(hostinfo)
                 THEN SubSeq(bracketed, 1, FirstOf(bracketed, {"]"}) - 1)
                 ELSE SubSeq(hostinfo, 1, FirstOf(hostinfo, {":"}) - 1))

\* validate_url_safety's list
dangerous_hosts ==
    {"localhost", "127.0.0.1", "0.0.0.0", "::1", "169.254.", "10.", "172.16.",
     "192.168."}

\* validate_url_safety(url)[0]
validate_url_safety(url) ==
    LET parsed == urlparse(url)
        host == IF hostname(parsed.netloc) # "" THEN hostname(parsed.netloc)
                ELSE str_lower(parsed.netloc)
    IN /\ ~urlparse_raises(url)
       /\ \A dangerous \in dangerous_hosts : ~str_in(dangerous, host)

\* "Basic validation" and "Reconstruct clean URL"
CleanUrl(url) ==
    LET parsed == urlparse(url)
        tld == str_lower(From(parsed.netloc, LastOf(parsed.netloc, {"."}) + 1))
        clean_url == parsed.scheme \o "://" \o str_lower(parsed.netloc)
                         \o (IF parsed.path # "/" THEN parsed.path ELSE "")
    IN IF urlparse_raises(url) THEN None
       ELSE IF parsed.netloc = "" \/ ~str_in(".", parsed.netloc) THEN None
       ELSE IF \E bad \in {".local", ".test", ".invalid", ".localhost"} :
                   str_endswith(parsed.netloc, bad) THEN None
       ELSE IF Len(tld) < 2 \/ ~str_isalpha(tld) THEN None
       ELSE IF ~validate_url_safety(clean_url) THEN None
       ELSE clean_url

\* the body of normalize_url
Normalize(url) ==
    IF url = NaN \/ url = "" THEN None
    ELSE LET u == str_strip(url)
             url_lower == str_lower(u)
         IN IF u = "" THEN None
            ELSE IF \E pattern \in invalid_patterns : str_in(pattern, url_lower)
            THEN None
            ELSE IF \E prefix \in NonHttpPrefixes : str_startswith(url_lower, prefix)
            THEN None
            ELSE LET full == WithScheme(u) IN
                 IF full = None THEN None ELSE CleanUrl(full)

\* Normalize of the URLs most sources of the model hold, computed once
NormalizedRawUrls == [url \in RawUrls \cup {NaN} |-> Normalize(url)]

normalize_url_Unvalidated(url) ==
    LET u == str_strip(url) IN
    IF u = "" THEN None
    ELSE IF str_startswith(u, "http://") \/ str_startswith(u, "https://")
    THEN str_lower(u)
    ELSE "https://" \o str_lower(u)

normalize_url(url) ==
    IF url \in DOMAIN NormalizedRawUrls THEN NormalizedRawUrls[url]
    ELSE Normalize(url)

\* the URL a redirect of n ends at (response.url after allow_redirects)
RedirectTarget(n) == n \o "/home"

(***************************************************************************)
(* What one GET can end with: a response or an exception.                  *)
(***************************************************************************)
Response(status, redirected) ==
    [kind |-> "response", status |-> status, redirected |-> redirected]

Raised(cls, text) == [kind |-> "exception", cls |-> cls, text |-> text]

Outcomes ==
    { Response(200, FALSE), Response(200, TRUE), Response(404, FALSE),
      Raised("TimeoutError", ""),
      Raised("ClientConnectorError", "Name or service not known"),
      Raised("ClientConnectorError", "Connect call failed"),
      Raised("ClientSSLError", "certificate verify failed"),
      Raised("ServerDisconnectedError", "Server disconnected") }

\* the classes an exception is an instance of (its class and its bases)
Bases(cls) ==
    CASE cls = "TimeoutError" -> {"TimeoutError", "Exception"}
      [] cls = "ClientConnectorError" ->
             {"ClientConnectorError", "ClientOSError", "ClientConnectionError",
              "ClientError", "OSError", "Exception"}
      [] cls = "ClientSSLError" ->
             {"ClientSSLError", "ClientConnectorError", "ClientOSError",
              "ClientConnectionError", "ClientError", "OSError", "Exception"}
      [] cls = "ServerDisconnectedError" ->
             {"ServerDisconnectedError", "ServerConnectionError",
              "ClientConnectionError", "ClientError", "Exception"}
      [] OTHER -> {cls, "Exception"}

\* the except clauses of check_website, in source order
ExceptClauses ==
    <<"TimeoutError", "ClientConnectorError", "ClientSSLError", "Exception">>

\* the first except clause that matches the exception
RECURSIVE FirstMatch(_, _)
FirstMatch(clauses, cls) ==
    IF Head(clauses) \in Bases(cls) THEN Head(clauses)
    ELSE FirstMatch(Tail(clauses), cls)

Handler(cls) == FirstMatch(ExceptClauses, cls)


(***************************************************************************)
(* CheckResult values built by check_website (response_time and timestamp  *)
(* are wall-clock readings and are left out).                              *)
(***************************************************************************)
CheckResult(url, n, status, code, category, message, retries, final) ==
    [url |-> url, normalized_url |-> n,
     status_result |-> status, status_code |-> code,
     error_category |-> category, error_message |-> message,
     retry_count |-> retries, final_url |-> final]

InvalidResult_KeepsUrl(url) ==
    CheckResult(url, url, "INVALID_URL", 0, "INVALID_URL_ERROR",
                "Invalid URL format", 0, "")

InvalidResult(url) ==
    CheckResult(url, "", "INVALID_URL", 0, "INVALID_URL_ERROR",
                "Invalid URL format", 0, "")

DuplicateResult_Replay(url, n) ==
    CheckResult(url, n, "ACTIVE", 200, None, "", 0, n)

DuplicateResult(url, n) ==
    CheckResult(url, n, "ERROR", 0, "UNKNOWN_ERROR", "Already processed", 0, "")

\* str(response.url): where the request ended after redirects
ResponseUrl(n, resp) == IF resp.redirected THEN RedirectTarget(n) ELSE n

ResponseResult_NoRetryCount(url, n, resp, attempt) ==
    IF resp.status = 200
    THEN CheckResult(url, n, "ACTIVE", resp.status, None, "", 0,
                     ResponseUrl(n, resp))
    ELSE CheckResult(url, n, "INACTIVE", resp.status, "HTTP_ERROR",
                     "HTTP " \o ToString(resp.status), 0,
                     ResponseUrl(n, resp))

ResponseResult(url, n, resp, attempt) ==
    IF resp.status = 200
    THEN CheckResult(url, n, "ACTIVE", resp.status, None, "", attempt,
                     ResponseUrl(n, resp))
    ELSE CheckResult(url, n, "INACTIVE", resp.status, "HTTP_ERROR",
                     "HTTP " \o ToString(resp.status), attempt,
                     ResponseUrl(n, resp))

\* "name or service not known" in str(e).lower()
IsDnsText(text) == text = "Name or service not known"

\* the result the matching except clause returns on the last attempt
ExceptResult_NoCategory(url, n, exc, attempt) ==
    IF Handler(exc.cls) = "TimeoutError"
    THEN CheckResult(url, n, "TIMEOUT", 0, None, "Request timeout", attempt, "")
    ELSE CheckResult(url, n, "ERROR", 0, None, "Error: " \o exc.text, attempt, "")

ExceptResult(url, n, exc, attempt) ==
    LET h == Handler(exc.cls) IN
    CASE h = "TimeoutError" ->
             CheckResult(url, n, "TIMEOUT", 0, "TIMEOUT_ERROR",
                         "Request timeout", attempt, "")
      [] h = "ClientConnectorError" ->
             CheckResult(url, n, "ERROR", 0,
                         IF IsDnsText(exc.text) THEN "DNS_ERROR"
                                                ELSE "CONNECTION_ERROR",
                         "Connection error: " \o exc.text, attempt, "")
      [] h = "ClientSSLError" ->
             CheckResult(url, n, "ERROR", 0, "SSL_ERROR",
                         "SSL error: " \o exc.text, attempt, "")
      [] OTHER ->
             CheckResult(url, n, "ERROR", 0, "UNKNOWN_ERROR",
                         "Unknown error: " \o exc.text, attempt, "")

\* the return after the for loop ("This should never be reached")
MaxRetriesResult(url, n, retry_count) ==
    CheckResult(url, n, "ERROR", 0, "UNKNOWN_ERROR", "Max retries exceeded",
                retry_count, "")

\* "if attempt == self.retry_count" of every except clause
IsLastAttempt_OffByOne(attempt, retry_count) == attempt + 1 = retry_count

IsLastAttempt(attempt, retry_count) == attempt = retry_count

\* What the loop body does with the outcome of a GET: both branches of the
\* "async with" body return; an except clause returns on the last attempt and
\* sleeps before the next one otherwise.
Verdict_RetryHttpErrors(o, attempt, retry_count) ==
    IF o.kind = "response" /\ o.status = 200 THEN "return"
    ELSE IF IsLastAttempt(attempt, retry_count) THEN "return"
    ELSE "retry"

Verdict(o, attempt, retry_count) ==
    IF o.kind = "response" THEN "return"
    ELSE IF IsLastAttempt(attempt, retry_count) THEN "return"
    ELSE "retry"

\* "for attempt in range(self.retry_count + 1)": is there an iteration `attempt`
InRange(attempt, retry_count) == attempt < retry_count + 1

\* retry_delay: float = 1.0, in milliseconds
RetryDelayMs == 1000

\* backoff_factor: float = 1.5, as the fraction BackoffNum / BackoffDen
BackoffNum == 3
BackoffDen == 2

\* b ** e
RECURSIVE Pow(_, _)
Pow(b, e) == IF e = 0 THEN 1 ELSE b * Pow(b, e - 1)

\* self.retry_delay * (self.backoff_factor ** attempt): milliseconds, as the
\* fraction <<numerator, denominator>> (1.5 ** attempt is exact in binary
\* floating point for the attempts a check can make)
BackoffDelay_Fixed(retry_delay, attempt) == <<retry_delay, 1>>

BackoffDelay(retry_delay, attempt) ==
    <<retry_delay * Pow(BackoffNum, attempt), Pow(BackoffDen, attempt)>>

\* the argument of the asyncio.sleep of the except clause that caught exc;
\* the "async with" body that handles a response holds no sleep
SleepDelay(exc, attempt) ==
    LET h == Handler(exc.cls) IN
    CASE exc.kind = "response" -> <<0, 1>>
      [] h = "TimeoutError" -> BackoffDelay(RetryDelayMs, attempt)
      [] h = "ClientConnectorError" -> BackoffDelay(RetryDelayMs, attempt)
      [] h = "ClientSSLError" -> BackoffDelay(RetryDelayMs, attempt)
      [] OTHER -> BackoffDelay(RetryDelayMs, attempt)

\* the counter of CheckerStats an except clause increments on the last attempt
ExceptCounter(exc) ==
    IF Handler(exc.cls) = "TimeoutError" THEN "timeouts" ELSE "errors"

(***************************************************************************)
(* check_websites_batch: the gate and the reassembly of the results        *)
(***************************************************************************)
\* asyncio.Semaphore(min(self.max_concurrent, len(urls)))
SemaphoreSize_Unbounded(max_concurrent, n) == n

SemaphoreSize_Closed(max_concurrent, n) == 0

SemaphoreSize(max_concurrent, n) == Min(max_concurrent, n)

\* what gather(return_exceptions=True) holds for a task, turned into a result
ProcessedResult_Unhandled(url, ret) ==
    IF ret.kind = "exception" THEN ret ELSE ret.result

ProcessedResult(url, ret) ==
    IF ret.kind = "exception"
    THEN CheckResult(url, "", "ERROR", 0, "UNKNOWN_ERROR",
                     "Exception: " \o ret.text, 0, "")
    ELSE ret.result

\* "results = await asyncio.gather(*tasks, return_exceptions=True)" and the
\* loop over enumerate(results): entry i belongs to urls[i]
ProcessedResults_CompletionOrder(ts) ==
    [r \in 1..Len(ts) |->
        LET i == CHOOSE j \in 1..Len(ts) : ts[j].rank = r IN
        ProcessedResult(ts[i].url, ts[i].ret)]

ProcessedResults(ts) ==
    [i \in 1..Len(ts) |-> ProcessedResult(ts[i].url, ts[i].ret)]


(***************************************************************************)
(* read_input_file: the chunks of the input                                *)
(***************************************************************************)
FileFormats == {"csv", "xlsx", "txt"}

\* Series.dropna(): the rows that hold a value
RECURSIVE dropna(_)
dropna(rows) ==
    IF rows = <<>> THEN <<>>
    ELSE (IF Head(rows) = NaN THEN <<>> ELSE <<Head(rows)>>) \o dropna(Tail(rows))

\* urls[i:i + n] of Python, i counted from 0
Slice(s, i, n) == SubSeq(s, i + 1, Min(i + n, Len(s)))

\* csv: pd.read_csv(chunksize=batch_size) cuts the rows into chunks, then each
\* chunk drops its missing values and is yielded only when something is left
RECURSIVE NextCsvChunk(_, _, _)
NextCsvChunk(rows, pos, k) ==
    IF pos >= Len(rows) THEN [urls |-> <<>>, pos |-> pos]
    ELSE LET urls == dropna(Slice(rows, pos, k)) IN
         IF urls # <<>> THEN [urls |-> urls, pos |-> Min(pos + k, Len(rows))]
         ELSE NextCsvChunk(rows, pos + k, k)

\* txt: non-blank lines are collected until batch_size of them are held;
\* what is left at the end of the file is yielded when it is not empty
RECURSIVE NextTxtChunk(_, _, _, _)
NextTxtChunk(rows, pos, k, urls) ==
    IF pos >= Len(rows) THEN [urls |-> urls, pos |-> pos]
    ELSE LET more == IF rows[pos + 1] = NaN THEN urls
                     ELSE Append(urls, rows[pos + 1]) IN
         IF Len(more) >= k THEN [urls |-> more, pos |-> pos + 1]
         ELSE NextTxtChunk(rows, pos + 1, k, more)

\* xlsx and process_dataframe: dropna() first, then urls[i:i + batch_size]
NextListChunk(rows, pos, k) ==
    [urls |-> Slice(dropna(rows), pos, k),
     pos |-> Min(pos + k, Len(dropna(rows)))]

\* a caller's own check_websites_batch(urls): the whole list, once; a caller's
\* own check_website(url): the one URL, once
NextDirectChunk(rows, pos) ==
    [urls |-> IF pos = 0 THEN rows ELSE <<>>, pos |-> Len(rows)]

\* the desktop application's _read_batches: df[url_column].tolist(), missing
\* values included, then urls[i:i + batch_size]
NextRawChunk(rows, pos, k) ==
    [urls |-> Slice(rows, pos, k), pos |-> Min(pos + k, Len(rows))]

\* the next chunk of the source from position pos; urls = <<>> at the end
NextChunk(format, rows, pos, k) ==
    CASE format = "csv" -> NextCsvChunk(rows, pos, k)
      [] format = "desktop" -> NextRawChunk(rows, pos, k)
      [] format = "txt" -> NextTxtChunk(rows, pos, k, <<>>)
      [] format \in {"direct", "single"} -> NextDirectChunk(rows, pos)
      [] OTHER -> NextListChunk(rows, pos, k)

\* (n + k - 1) // k
CeilDiv(n, k) == (n + k - 1) \div k

(***************************************************************************)
(* save_results_batch and update_stats                                     *)
(***************************************************************************)
\* the filter of save_results_batch
Kept_ErrorsWithInactive(result, include_inactive, include_errors) ==
    \/ result.status_result = "ACTIVE"
    \/ result.status_result \in {"INACTIVE", "ERROR", "TIMEOUT"} /\ include_inactive

Kept_InvalidWithErrors(result, include_inactive, include_errors) ==
    \/ result.status_result = "ACTIVE"
    \/ result.status_result = "INACTIVE" /\ include_inactive
    \/ result.status_result \in {"ERROR", "TIMEOUT", "INVALID_URL"} /\ include_errors

Kept(result, include_inactive, include_errors) ==
    \/ result.status_result = "ACTIVE"
    \/ result.status_result = "INACTIVE" /\ include_inactive
    \/ result.status_result \in {"ERROR", "TIMEOUT"} /\ include_errors

RECURSIVE FilterResults(_, _, _)
FilterResults(results, include_inactive, include_errors) ==
    IF results = <<>> THEN <<>>
    ELSE (IF Kept(Head(results), include_inactive, include_errors)
          THEN <<Head(results)>> ELSE <<>>)
         \o FilterResults(Tail(results), include_inactive, include_errors)

\* the exception raised inside save_results_batch's try block: none when
\* nothing is left to write (it returns before it looks at the path), else
\* the ValueError of an unsupported suffix or the error of the write
SaveError(file, results, include_inactive, include_errors) ==
    IF FilterResults(results, include_inactive, include_errors) = <<>>
    THEN "none"
    ELSE file.fault

\* the output file after save_results_batch(results, output_file, append);
\* its "except Exception" logs whatever was raised and returns
SaveResultsBatch(file, results, append, include_inactive, include_errors) ==
    LET filtered == FilterResults(results, include_inactive, include_errors) IN
    IF filtered = <<>> THEN file
    ELSE IF SaveError(file, results, include_inactive, include_errors) # "none"
         THEN file
    ELSE IF append /\ file.exists
         THEN [file EXCEPT !.exists = TRUE, !.rows = file.rows \o filtered]
         ELSE [file EXCEPT !.exists = TRUE, !.rows = filtered]

RECURSIVE CountStatus(_, _)
CountStatus(results, statuses) ==
    IF results = <<>> THEN 0
    ELSE (IF Head(results).status_result \in statuses THEN 1 ELSE 0)
         + CountStatus(Tail(results), statuses)

\* update_stats (rates and times left out)
UpdateStats_OnlyErrorStatus(st, results) ==
    [st EXCEPT
       !.active_websites = @ + CountStatus(results, {"ACTIVE"}),
       !.inactive_websites = @ + CountStatus(results, {"INACTIVE"}),
       !.error_websites = @ + CountStatus(results, {"ERROR"})]

UpdateStats(st, results) ==
    [st EXCEPT
       !.active_websites = @ + CountStatus(results, {"ACTIVE"}),
       !.inactive_websites = @ + CountStatus(results, {"INACTIVE"}),
       !.error_websites = @ + CountStatus(results, StatusResult \ {"ACTIVE", "INACTIVE"})]


(***************************************************************************)
(* The desktop application's DesktopBatchProcessor: _save_results and      *)
(* _update_stats                                                           *)
(***************************************************************************)
\* the dictionary _save_results writes for a result
DesktopRow(result) ==
    [url |-> result.url,
     status |-> result.status_result,
     status_code |-> IF result.status_code # 0 THEN ToString(result.status_code)
                     ELSE "",
     error |-> result.error_message,
     final_url |-> IF result.final_url # "" THEN result.final_url ELSE result.url]

\* _save_results: every result of the chunk, mode "a" if append else "w"; an
\* error of the write is logged and dropped
DesktopSaveResults(file, results, append) ==
    LET written == [i \in 1..Len(results) |-> DesktopRow(results[i])] IN
    IF file.fault # "none" THEN file
    ELSE [file EXCEPT !.exists = TRUE,
                      !.rows = IF append THEN file.rows \o written ELSE written]

\* _update_stats (rate and elapsed time left out)
DesktopUpdateStats(st, results) ==
    [st EXCEPT
       !.processed = @ + Len(results),
       !.active = @ + CountStatus(results, {"ACTIVE"}),
       !.inactive = @ + CountStatus(results, {"INACTIVE"}),
       !.errors = @ + CountStatus(results, StatusResult \ {"ACTIVE", "INACTIVE"})]

\* the message types on progress_queue
Sent(queue, type) == \E p \in 1..Len(queue) : queue[p] = type

(***************************************************************************)
(* State                                                                   *)
(***************************************************************************)
VARIABLES
    config,        \* BatchConfig / the checker's settings, fixed for the run
    source,        \* the input: its format and its rows
    transport,     \* the outcomes the network produces in this run
    pc,            \* where the orchestrator is: start, gather, pause, done
    batch_num,     \* batch_num of process_file
    pos,           \* how far the input has been read
    tasks,         \* the check_with_semaphore tasks of the current batch
    semaphore,     \* the value of the batch's asyncio.Semaphore
    session,       \* self.session is not None
    checked_urls,  \* self.checked_urls
    stats,         \* self.stats of the checker (CheckerStats)
    pstats,        \* self.stats of the processor (ProcessingStats)
    results,       \* what the last check_websites_batch returned
    output_file,   \* the output file: whether it exists, and its rows
    progress,      \* the progress file written by save_progress
    chunks,        \* history: the chunks dispatched so far
    all_results,   \* history: the returned results of all chunks, in order
    fetched,       \* history: the check calls that issued a GET, with the URL
    stop_event,    \* the desktop application's stop_event is set
    progress_queue, \* the desktop application's progress_queue: message types
    window,        \* the desktop window: its StateManager and its polling
    web            \* the web application: its job managers and its answers

vars == <<config, source, transport, pc, batch_num, pos, tasks, semaphore,
          session, checked_urls, stats, pstats, results, output_file,
          progress, chunks, all_results, fetched, stop_event, progress_queue,
          window, web>>

Pending == [kind |-> "pending"]
Returned(r) == [kind |-> "result", result |-> r]

NewTask(url) ==
    [pc |-> "wait", url |-> url, n |-> "", attempt |-> 0, hist |-> <<>>,
     sleeps |-> <<>>, ret |-> Pending, rank |-> 0]

\* fault is what writing to the path runs into: nothing, an I/O error, or a
\* suffix that is none of .csv, .json, .xlsx, .xls
NoFile == [exists |-> FALSE, rows |-> <<>>, fault |-> "none"]
BrokenFile(fault) == [NoFile EXCEPT !.fault = fault]
\* the progress file (website_check_progress.json): absent, or holding what
\* save_progress dumped
NoProgressFile == [exists |-> FALSE, fault |-> "none"]
ProgressFile(content) == [exists |-> TRUE, content |-> content, fault |-> "none"]

\* a progress file that open(progress_file, 'w') cannot write: OSError
UnwritableProgressFile == [exists |-> FALSE, fault |-> "io"]

\* an output file left by an earlier run: one row
OldRow ==
    CheckResult("https://old.io", "https://old.io", "ACTIVE", 200, None, "", 0,
                "https://old.io")
OldFile == [exists |-> TRUE, rows |-> <<OldRow>>, fault |-> "none"]

CheckerStats0 ==
    [total_checked |-> 0, active_found |-> 0, inactive_found |-> 0,
     errors |-> 0, timeouts |-> 0, invalid_urls |-> 0]

ProcessingStats0 ==
    [total_input_urls |-> 0, batches_processed |-> 0, total_batches |-> 0,
     active_websites |-> 0, inactive_websites |-> 0, error_websites |-> 0]

\* ProcessingStats of process_controller.py, which DesktopBatchProcessor puts
\* in place of the one above
DesktopStats0 ==
    [total_urls |-> 0, processed |-> 0, active |-> 0, inactive |-> 0, errors |-> 0]

\* the sequences over S of length lo..hi
SeqsOf(S, lo, hi) == UNION { [1..n -> S] : n \in lo..hi }

\* the state after BatchProcessor(config) / WebsiteStatusChecker(...) is built,
\* with what earlier runs left on disk: an output file, a progress file
\* AppState of the desktop window
AppState ==
    {"IDLE", "LOADING", "READY", "PROCESSING", "PAUSED", "COMPLETED", "ERROR"}

\* valid_transitions of StateManager._is_valid_transition
valid_transitions ==
    [s \in AppState |->
        CASE s = "IDLE" -> {"LOADING", "ERROR"}
          [] s = "LOADING" -> {"READY", "ERROR", "IDLE"}
          [] s = "READY" -> {"PROCESSING", "IDLE", "ERROR"}
          [] s = "PROCESSING" -> {"PAUSED", "COMPLETED", "ERROR", "IDLE"}
          [] s = "PAUSED" -> {"PROCESSING", "IDLE", "ERROR"}
          [] s = "COMPLETED" -> {"IDLE", "READY"}
          [] s = "ERROR" -> {"IDLE"}]

is_valid_transition(from_state, to_state) ==
    to_state \in valid_transitions[from_state]

\* the job ids uuid4 hands out, and the modules of gui/api that hold a
\* JobManager
JobIds == {"J1", "J2"}
ApiModules == {"upload", "process", "sse"}

\* JobManager.__init__: no job, no queue
JobManager0 ==
    [jobs |-> [j \in JobIds |-> "absent"],
     progress_queues |-> [j \in JobIds |-> [exists |-> FALSE, items |-> <<>>]]]

\* JobManager.create_job: the job is PENDING and has an empty queue
create_job(manager, job_id) ==
    [manager EXCEPT !.jobs[job_id] = "pending",
                    !.progress_queues[job_id] = [exists |-> TRUE, items |-> <<>>]]

\* JobManager.get_job: self.jobs.get(job_id)
get_job(manager, job_id) ==
    IF manager.jobs[job_id] = "absent" THEN None ELSE manager.jobs[job_id]

\* the JobManager an endpoint of the module works on: upload.py, process.py
\* and sse.py each construct their own at import
JobManagerOf(module) == module

\* one answer of the web application
Answer(endpoint, job_id, answer) ==
    [endpoint |-> endpoint, job_id |-> job_id, answer |-> answer]

\* the web application after import: every module's JobManager is empty
Web0 ==
    [managers |-> [m \in ApiModules |-> JobManager0],
     issued |-> {}, background |-> {},
     streams |-> [j \in JobIds |-> "none"],
     responses |-> <<>>]

\* the window when the run's thread starts: _on_start_processing has set
\* PROCESSING before the polling callback can handle the first message; a
\* run without a window leaves the StateManager as constructed
Window0(format) ==
    [state |-> IF format = "desktop" THEN "PROCESSING" ELSE "IDLE",
     handled |-> 0, raised |-> FALSE]

InitOnDisk(sources, configs, transports, files, checkpoints) ==
    /\ config \in configs
    /\ source \in sources
    /\ transport \in transports
    /\ output_file \in files
    /\ progress \in checkpoints
    /\ pc = "start"
    /\ batch_num = 0
    /\ pos = 0
    /\ tasks = <<>>
    /\ semaphore = 0
    /\ session = FALSE
    /\ checked_urls = {}
    /\ stats = CheckerStats0
    /\ pstats = IF source.format = "desktop" THEN DesktopStats0
                ELSE ProcessingStats0
    /\ results = <<>>
    /\ chunks = <<>>
    /\ all_results = <<>>
    /\ fetched = {}
    /\ stop_event = FALSE
    /\ progress_queue = <<>>
    /\ window = Window0(source.format)
    /\ web = Web0

\* the same in a directory without a progress file
InitWith(sources, configs, transports, files) ==
    InitOnDisk(sources, configs, transports, files, {NoProgressFile})

(***************************************************************************)
(* check_website, one task of the batch                                    *)
(***************************************************************************)
SetTask(i, t) == [tasks EXCEPT ![i] = t]

\* the task ends with ret; rank records the order in which the tasks ended
Finished(t, ret) ==
    [t EXCEPT !.pc = "done", !.ret = ret,
              !.rank = 1 + Cardinality({j \in 1..Len(tasks) : tasks[j].pc = "done"})]

\* "self.stats[counter] += 1": no await stands between the read and the write
Bump_LostUpdate(st, counter) == [st EXCEPT ![counter] = 1]

Bump(st, counter) == [st EXCEPT ![counter] = @ + 1]

\* The task acquires the semaphore and runs check_website up to its first
\* await: normalization, the duplicate guard, and the first session.get.
\* asyncio wakes the waiters of a semaphore in the order they queued.
Admit(i) ==
    /\ pc = "gather"
    /\ i \in 1..Len(tasks)
    /\ tasks[i].pc = "wait"
    /\ \A j \in 1..(i - 1) : tasks[j].pc # "wait"
    /\ semaphore > 0
    /\ LET t == tasks[i]
           n == normalize_url(t.url)
       IN
       IF normalize_raises(t.url)
       THEN /\ tasks' = SetTask(i, Finished(t,
                   [kind |-> "exception", cls |-> "ValueError",
                    text |-> "The truth value of an array is ambiguous"]))
            /\ UNCHANGED <<stats, semaphore, session, fetched>>
       ELSE IF n = None
       THEN /\ stats' = Bump(stats, "invalid_urls")
            /\ tasks' = SetTask(i, Finished(t, Returned(InvalidResult(t.url))))
            /\ UNCHANGED <<semaphore, session, fetched>>
       ELSE IF n \in checked_urls
       THEN /\ tasks' = SetTask(i, Finished([t EXCEPT !.n = n],
                                           Returned(DuplicateResult(t.url, n))))
            /\ UNCHANGED <<stats, semaphore, session, fetched>>
       ELSE IF ~InRange(0, config.retry_count)
       THEN /\ tasks' = SetTask(i, Finished([t EXCEPT !.n = n],
                   Returned(MaxRetriesResult(t.url, n, config.retry_count))))
            /\ UNCHANGED <<stats, semaphore, session, fetched>>
       ELSE /\ tasks' = SetTask(i, [t EXCEPT !.pc = "get", !.n = n])
            /\ semaphore' = semaphore - 1
            /\ session' = TRUE
            /\ fetched' = fetched \cup {<<batch_num, i, n>>}
            /\ UNCHANGED stats
    /\ UNCHANGED <<web, window, config, source, transport, pc, batch_num, pos, checked_urls,
                   pstats, results, output_file, progress, chunks, all_results,
                   stop_event, progress_queue>>

\* The GET of task i ends with outcome o: a response ends the check, an
\* exception ends it on the last attempt and starts the back-off sleep before.
Respond(i, o) ==
    /\ pc = "gather"
    /\ i \in 1..Len(tasks)
    /\ tasks[i].pc = "get"
    /\ o \in transport
    /\ LET t == [tasks[i] EXCEPT !.hist = Append(@, o)] IN
       IF Verdict(o, t.attempt, config.retry_count) = "retry"
       THEN /\ tasks' = SetTask(i, [t EXCEPT !.pc = "sleep",
                                !.sleeps = Append(@, SleepDelay(o, t.attempt))])
            /\ UNCHANGED <<stats, checked_urls, semaphore>>
       ELSE IF o.kind = "response"
       THEN /\ stats' = Bump(Bump(stats, "total_checked"),
                             IF o.status = 200 THEN "active_found"
                                               ELSE "inactive_found")
            /\ checked_urls' = checked_urls \cup {t.n}
            /\ tasks' = SetTask(i, Finished(t,
                            Returned(ResponseResult(t.url, t.n, o, t.attempt))))
            /\ semaphore' = semaphore + 1
       ELSE /\ stats' = Bump(stats, ExceptCounter(o))
            /\ tasks' = SetTask(i, Finished(t,
                            Returned(ExceptResult(t.url, t.n, o, t.attempt))))
            /\ semaphore' = semaphore + 1
            /\ UNCHANGED checked_urls
    /\ UNCHANGED <<web, window, config, source, transport, pc, batch_num, pos, session,
                   pstats, results, output_file, progress, chunks, all_results,
                   fetched, stop_event, progress_queue>>

\* The back-off sleep of task i is over: the next iteration of the loop
\* issues the next GET, or the loop is exhausted.
Wake(i) ==
    /\ pc = "gather"
    /\ i \in 1..Len(tasks)
    /\ tasks[i].pc = "sleep"
    /\ LET t == [tasks[i] EXCEPT !.attempt = @ + 1] IN
       IF InRange(t.attempt, config.retry_count)
       THEN /\ tasks' = SetTask(i, [t EXCEPT !.pc = "get"])
            /\ UNCHANGED semaphore
       ELSE /\ tasks' = SetTask(i, Finished(t,
                   Returned(MaxRetriesResult(t.url, t.n, config.retry_count))))
            /\ semaphore' = semaphore + 1
    /\ UNCHANGED <<web, window, config, source, transport, pc, batch_num, pos, session,
                   checked_urls, stats, pstats, results, output_file, progress,
                   chunks, all_results, fetched, stop_event, progress_queue>>


(***************************************************************************)
(* The orchestrator: process_file, process_dataframe, or a caller's own    *)
(* check_websites_batch                                                    *)
(***************************************************************************)
\* the non-blank lines / the rows, as process_file counts them up front
CountInput(format, rows) ==
    IF format = "txt" THEN Len(dropna(rows)) ELSE Len(rows)

\* ProcessingStats when the loop over the chunks is entered
StartStats(st, format, rows, cfg) ==
    IF format = "desktop" THEN [st EXCEPT !.total_urls = Len(rows)]
    ELSE IF format = "dataframe"
    THEN [st EXCEPT !.total_input_urls = Len(dropna(rows)),
                    !.total_batches = CeilDiv(Len(dropna(rows)), cfg.batch_size)]
    ELSE IF format \in FileFormats
    THEN LET counted == IF cfg.memory_efficient THEN 0
                        ELSE CountInput(format, rows) IN
         [st EXCEPT !.total_input_urls =
                        IF format = "xlsx" THEN Len(dropna(rows)) ELSE counted,
                    !.total_batches =
                        IF counted > 0 THEN CeilDiv(counted, cfg.batch_size) ELSE 0]
    ELSE st

\* the orchestrator is between two chunks: before the first one, or in the
\* pause that follows a chunk
BetweenChunks_NoAwait == pc \in {"start", "pause", "gather"}

BetweenChunks == pc \in {"start", "pause"}

\* what read_input_file does with a source it cannot read: a missing or
\* unreadable file and an unsupported suffix raise; a file without the URL
\* column is logged and read as empty
ReadRaises_Never(src) == FALSE

ReadRaises(src) == src.fault \in {"missing", "unsupported"}

\* _count_urls of the desktop run raises on every failure to read the file,
\* a missing column included
CountUrlsRaises(src) == src.format = "desktop" /\ src.fault # "none"

\* process_dataframe raises ValueError for a DataFrame without the URL
\* column, before it enters its try block
DataFrameRaises(src) == src.format = "dataframe" /\ src.fault = "no_column"

\* the run raises before its first chunk
RunRaises(src) ==
    IF CountUrlsRaises(src) THEN TRUE
    ELSE IF DataFrameRaises(src) THEN TRUE
    ELSE ReadRaises(src)

\* a close() that leaves the session open
close_KeepsSession(s) == s

\* WebsiteStatusChecker.close: the session is closed and self.session is None
close(s) == FALSE

\* read_input_file's next chunk: nothing is yielded from a source with a fault
ReadInputFile(src, p, k) ==
    IF src.fault # "none" THEN [urls |-> <<>>, pos |-> p]
    ELSE NextChunk(src.format, src.rows, p, k)

Upcoming == ReadInputFile(source, pos, config.batch_size)

\* process_file_with_progress looks at stop_event once per chunk, right after
\* the chunk is read and before anything is done with it
Stopped == source.format = "desktop" /\ stop_event

\* The next chunk is read and check_websites_batch is entered: the session is
\* created when there is none, the semaphore is built, the tasks are created.
\* A caller's own "await check_website(url)" (format "single") enters
\* check_website directly: nothing creates a session before it, and no gate
\* stands before the one call (the model lets it through a gate of its own).
\* The desktop run counts the URLs and sends "started" before its first chunk.
Dispatch ==
    /\ BetweenChunks
    /\ Upcoming.urls # <<>>
    /\ ~Stopped
    /\ pc' = "gather"
    /\ pos' = Upcoming.pos
    /\ batch_num' = batch_num + 1
    /\ pstats' = IF pc = "start"
                 THEN StartStats(pstats, source.format, source.rows, config)
                 ELSE pstats
    /\ session' = IF source.format = "single" THEN session ELSE TRUE
    /\ semaphore' = IF source.format = "single" THEN 1
                    ELSE SemaphoreSize(config.max_concurrent, Len(Upcoming.urls))
    /\ tasks' = [i \in 1..Len(Upcoming.urls) |-> NewTask(Upcoming.urls[i])]
    /\ chunks' = Append(chunks, Upcoming.urls)
    /\ progress_queue' = IF source.format = "desktop" /\ pc = "start"
                         THEN Append(progress_queue, "started")
                         ELSE progress_queue
    /\ UNCHANGED <<web, window, config, source, transport, checked_urls, stats, results,
                   output_file, progress, all_results, fetched, stop_event>>

\* save_progress([str(batch_num)], str(batch_num))
SaveProgress(b, st, checked) ==
    [processed_batches |-> <<ToString(b)>>, current_batch |-> ToString(b),
     stats |-> st, checked_urls_count |-> Cardinality(checked)]

\* load_progress: what the progress file holds under 'processed_batches' and
\* 'current_batch', or an empty list and None when there is no file
load_progress(file) ==
    IF file.exists
    THEN <<file.content.processed_batches, file.content.current_batch>>
    ELSE <<(<<>>), None>>

\* save_progress raises: when open or json.dump raises inside its try block,
\* matching the exception evaluates the tuple (IOError, OSError,
\* json.JSONEncodeError); the json module has no JSONEncodeError, so the
\* except clause itself raises AttributeError, which leaves save_progress
SaveProgressRaises(file) == file.fault # "none"

\* the checkpoint of chunk b is due
CheckpointDue(format, b, save_interval) ==
    format \in FileFormats /\ b % save_interval = 0

\* gather has every task's result: check_websites_batch returns, and the
\* orchestrator saves the chunk, counts it, writes the checkpoint when one is
\* due, and pauses.  The desktop run counts the chunk, sends
\* "batch_complete" unless the last one was sent less than 0.1 s ago, writes
\* every result of the chunk, and sleeps 0.01 s.  When save_progress raises,
\* process_file logs the exception, closes the session and raises it again.
GatherDone ==
    /\ pc = "gather"
    /\ \A i \in 1..Len(tasks) : tasks[i].pc = "done"
    /\ LET processed == ProcessedResults(tasks) IN
       /\ results' = processed
       /\ all_results' = all_results \o processed
       /\ IF source.format \in {"direct", "single"}
          THEN /\ pc' = "done"
               /\ UNCHANGED <<output_file, pstats, progress, progress_queue,
                              session>>
          ELSE IF source.format = "desktop"
          THEN /\ pc' = "pause"
               /\ pstats' = DesktopUpdateStats(pstats, processed)
               /\ \E throttled \in BOOLEAN :
                      /\ throttled => Sent(progress_queue, "batch_complete")
                      /\ progress_queue' =
                             IF throttled THEN progress_queue
                             ELSE Append(progress_queue, "batch_complete")
               /\ output_file' = DesktopSaveResults(output_file, processed,
                                                    batch_num > 1)
               /\ UNCHANGED <<progress, session>>
          ELSE /\ UNCHANGED progress_queue
               /\ output_file' = SaveResultsBatch(output_file, processed,
                                     batch_num > 1, config.include_inactive,
                                     config.include_errors)
               /\ pstats' = UpdateStats(
                                [pstats EXCEPT !.batches_processed = batch_num],
                                processed)
               /\ IF ~CheckpointDue(source.format, batch_num, config.save_interval)
                  THEN /\ pc' = "pause"
                       /\ UNCHANGED <<progress, session>>
                  ELSE IF SaveProgressRaises(progress)
                  THEN /\ pc' = "failed"
                       /\ session' = close(session)
                       /\ UNCHANGED progress
                  ELSE /\ pc' = "pause"
                       /\ progress' = ProgressFile(
                              SaveProgress(batch_num, stats, checked_urls))
                       /\ UNCHANGED session
    /\ UNCHANGED <<web, window, config, source, transport, batch_num, pos, tasks, semaphore,
                   checked_urls, stats, chunks, fetched, stop_event>>

\* The messages the desktop run sends when its loop ends: "stopped" when it
\* breaks on stop_event, and "complete" after the loop either way; "started"
\* first when the loop ends before any chunk.  When the run raises, its
\* except clause sends "error" and raises again, and _process_in_thread puts
\* a second "error".
LoopEndMessages(format, at_start, stopped, raised) ==
    IF format # "desktop" THEN <<>>
    ELSE IF raised THEN <<"error", "error">>
    ELSE (IF at_start THEN <<"started">> ELSE <<>>)
         \o (IF stopped THEN <<"stopped">> ELSE <<>>)
         \o <<"complete">>

\* The input is exhausted, or the desktop run reads a chunk and finds
\* stop_event set: the run returns its statistics and closes the checker's
\* session.  When reading the source raises, process_file logs the exception
\* and raises it again, and closes the session on the way out.
Finish ==
    /\ BetweenChunks
    /\ IF Stopped THEN TRUE ELSE Upcoming.urls = <<>>
    /\ pc' = IF RunRaises(source) THEN "failed" ELSE "done"
    /\ pos' = Upcoming.pos
    /\ batch_num' = IF Upcoming.urls # <<>> THEN batch_num + 1 ELSE batch_num
    /\ pstats' = IF pc = "start" /\ source.fault = "none"
                 THEN StartStats(pstats, source.format, source.rows, config)
                 ELSE pstats
    /\ session' = IF DataFrameRaises(source) THEN session ELSE close(session)
    /\ progress_queue' = progress_queue \o
           LoopEndMessages(source.format, pc = "start", Upcoming.urls # <<>>,
                           RunRaises(source))
    /\ UNCHANGED <<web, window, config, source, transport, tasks, semaphore,
                   checked_urls, stats, results, output_file, progress, chunks,
                   all_results, fetched, stop_event>>

\* ProcessController.stop_processing, called from the window's thread at any
\* moment of the run
Stop ==
    /\ source.format = "desktop"
    /\ ~stop_event
    /\ pc \notin {"done", "failed"}
    /\ stop_event' = TRUE
    /\ UNCHANGED <<web, window, config, source, transport, pc, batch_num, pos, tasks,
                   semaphore, session, checked_urls, stats, pstats, results,
                   output_file, progress, chunks, all_results, fetched,
                   progress_queue>>

Next ==
    \/ Dispatch
    \/ \E i \in 1..MaxRows : Admit(i)
    \/ \E i \in 1..MaxRows : \E o \in Outcomes : Respond(i, o)
    \/ \E i \in 1..MaxRows : Wake(i)
    \/ GatherDone
    \/ Finish

(***************************************************************************)
(* Specifications                                                          *)
(***************************************************************************)
\* the BatchConfig values with the given settings; resume_on_failure and
\* memory_efficient keep their default
ConfigsOf(ks, ms, rs, ss, inactives, errs) ==
    [batch_size : ks, max_concurrent : ms, retry_count : rs,
     save_interval : ss, include_inactive : inactives, include_errors : errs,
     memory_efficient : {TRUE}, resume_on_failure : {TRUE}]

\* the default output flags, and a checkpoint every second chunk
Configs(ks, ms, rs) == ConfigsOf(ks, ms, rs, {2}, {TRUE}, {FALSE})

\* the rows a source of the format can hold: a file or a DataFrame holds
\* strings and missing values, a caller's list can hold any object
RowsOf(format, urls, lo, hi) ==
    IF format = "direct" THEN SeqsOf(urls \cup {NaN, BadObj}, lo, hi)
    ELSE SeqsOf(urls \cup {NaN}, lo, hi)

\* the sources of the given formats
Sources(formats, urls, lo, hi) ==
    UNION { {[format |-> f, rows |-> r, fault |-> "none"] :
                 r \in RowsOf(f, urls, lo, hi)} : f \in formats }

\* the sources read_input_file cannot read: a path with no file behind it, a
\* file of another suffix, a CSV or Excel file without the URL column (rows
\* are what the file holds instead)
FaultySources(urls, lo, hi) ==
    {[format |-> f, rows |-> <<>>, fault |-> "missing"] : f \in FileFormats}
    \cup {[format |-> "json", rows |-> r, fault |-> "unsupported"] :
              r \in SeqsOf(urls, lo, hi)}
    \cup {[format |-> f, rows |-> r, fault |-> "no_column"] :
              f \in {"csv", "xlsx"}, r \in SeqsOf(urls, lo, hi)}

\* one check at a time, every outcome of the network: the one line of a file,
\* a caller's list of one element, or a caller's own check_website(url)
InitCheck ==
    InitWith(Sources({"txt", "direct", "single"}, RawUrls, 1, 1),
             Configs({1}, {1}, 0..MaxRetry), {Outcomes}, {NoFile})
SpecCheck == InitCheck /\ [][Next]_vars

\* one check at a time under every retry_count the constructor stores:
\* WebsiteStatusChecker.__init__ and the BatchConfig dataclass of batch.py
\* assign retry_count without looking at it, a negative one included
AcceptedRetryCounts == -1..MaxRetry
InitAccepted ==
    InitWith(Sources({"txt", "single"}, RawUrls, 1, 1),
             Configs({1}, {1}, AcceptedRetryCounts), {Outcomes}, {NoFile})
SpecAccepted == InitAccepted /\ [][Next]_vars


\* batches of concurrent checks: a caller's own list, or the chunks of a file
BatchTransports == {{Response(200, FALSE), Raised("TimeoutError", "")}}
InitBatch ==
    InitWith(Sources({"direct", "txt"}, RawUrls, 0, MaxRows),
             Configs({MaxBatchSize}, 1..MaxConcurrent, {1}), BatchTransports,
             {NoFile})
SpecBatch == InitBatch /\ [][Next]_vars

\* a whole run of the orchestrator over a source read in chunks
InitRun ==
    InitWith(Sources(FileFormats \cup {"dataframe"}, RawUrls \ {"A.io"}, 0, MaxRows),
             Configs(1..MaxBatchSize, 1..MaxConcurrent, {1}), BatchTransports,
             {NoFile})
Init == InitRun
Spec == Init /\ [][Next]_vars

\* runs that write every kind of result to the output file, under every
\* setting of the output flags, onto no file or onto the file of an earlier run
SinkTransports ==
    {{Response(200, FALSE), Response(404, FALSE), Raised("TimeoutError", "")}}
InitSink ==
    InitWith(Sources({"txt"}, {"https://a.io", "https://b.io", "not-a-url"}, 0, MaxRows),
             ConfigsOf({1, MaxRows}, {1}, {1}, {2}, BOOLEAN, BOOLEAN),
             SinkTransports, {NoFile, OldFile})
SpecSink == InitSink /\ [][Next]_vars

\* the progress file of an earlier run over the same input that was
\* interrupted after its second chunk, every request of which timed out
\* (batch_size 1, save_interval 2: two URLs, one timeout counted for each)
PriorCheckpoint ==
    ProgressFile(SaveProgress(2, [CheckerStats0 EXCEPT !.timeouts = 2], {}))

\* resume_on_failure is the --resume flag of the command line
ResumeConfigs ==
    {[c EXCEPT !.resume_on_failure = r] : c \in Configs({1}, {1}, {1}), r \in BOOLEAN}

\* process_file started again over an input of at least two URLs, with or
\* without the progress file of the interrupted run
InitResume ==
    /\ InitOnDisk(Sources({"csv", "txt"}, {"https://a.io", "https://b.io"}, 2, MaxRows),
                  ResumeConfigs, BatchTransports, {NoFile},
                  {NoProgressFile, PriorCheckpoint})
    /\ Len(dropna(source.rows)) >= 2
SpecResume == InitResume /\ [][Next]_vars

\* runs of process_file that write a checkpoint after every chunk or every
\* second one, next to a progress file that may not be writable
InitCheckpoint ==
    InitOnDisk(Sources({"csv", "txt"}, {"https://a.io", "https://b.io"}, 1, MaxRows),
               ConfigsOf({1}, {1}, {1}, {1, 2}, {TRUE}, {FALSE}),
               BatchTransports, {NoFile},
               {NoProgressFile, UnwritableProgressFile})
SpecCheckpoint == InitCheckpoint /\ [][Next]_vars

\* runs of process_file and process_dataframe that end in every way: the
\* source cannot be read, the DataFrame has no URL column, the checkpoint
\* after a chunk cannot be written, or the run completes
SessionUrls == {"https://a.io", "not-a-url"}
InitSession ==
    InitOnDisk(Sources({"txt", "dataframe"}, SessionUrls, 0, MaxRows)
                   \cup FaultySources(SessionUrls, 1, 1)
                   \cup {[format |-> "dataframe", rows |-> <<"https://a.io">>,
                           fault |-> "no_column"]},
               ConfigsOf({1, MaxBatchSize}, {1}, {1}, {1}, {TRUE}, {FALSE}),
               BatchTransports, {NoFile},
               {NoProgressFile, UnwritableProgressFile})
SpecSession == InitSession /\ [][Next]_vars

\* a run over a source that may not be readable, into an output file that may
\* not be writable
FaultUrls == {"https://a.io", "https://b.io"}
InitFault ==
    InitWith(Sources({"csv", "txt"}, FaultUrls, 0, MaxRows)
                 \cup FaultySources(FaultUrls, 0, MaxBatchSize),
             Configs({1, MaxBatchSize}, {1}, {1}), BatchTransports,
             {NoFile, BrokenFile("io"), BrokenFile("unsupported")})
SpecFault == InitFault /\ [][Next]_vars

\* a whole run under the event loop's scheduling: a task that can run is run,
\* every GET returns or raises, every sleep ends
LiveUrls == {"https://a.io", "not-a-url"}
LiveTransports ==
    {{Response(200, FALSE), Raised("TimeoutError", ""),
      Raised("ServerDisconnectedError", "Server disconnected")}}
InitLive ==
    InitWith(Sources({"csv", "txt"}, LiveUrls, 0, MaxRows),
             Configs({1, MaxBatchSize}, 1..MaxConcurrent, 0..1), LiveTransports,
             {NoFile})
SpecLive == InitLive /\ [][Next]_vars /\ WF_vars(Next)

\* one check of a raw URL put together from a scheme, a host, a port and a
\* path: the hosts are the loopback, link-local and private literals and a
\* few public names
UnsafeHosts ==
    {"localhost", "127.0.0.1", "[::1]", "::1", "169.254.169.254", "10.0.0.1",
     "172.16.0.1", "192.168.1.1"}
PublicHosts ==
    {"example.com", "WWW.EXAMPLE.COM", "site.org", "www.site.org", "WWW.Site.ORG"}
UrlsOf(hosts) ==
    {scheme \o host \o port \o path :
        scheme \in {"", "http://", "https://"}, host \in hosts,
        port \in {"", ":8080"}, path \in {"", "/", "/admin", "/p ?q=1"}}
NormalizeInputs == UrlsOf(UnsafeHosts) \cup UrlsOf(PublicHosts)
InitNormalize ==
    InitWith(Sources({"txt", "single"}, NormalizeInputs, 1, 1),
             Configs({1}, {1}, {1}), BatchTransports, {NoFile})
SpecNormalize == InitNormalize /\ [][Next]_vars

\* batches under every max_concurrent the checker accepts: __init__ stores
\* the value as it is given, 0 included (a negative one makes
\* asyncio.Semaphore raise), under the event loop's scheduling
AcceptedMaxConcurrent == 0..MaxConcurrent
InitGate ==
    InitWith(Sources({"direct", "txt"}, LiveUrls, 1, MaxRows),
             Configs({MaxBatchSize}, AcceptedMaxConcurrent, {1}), BatchTransports,
             {NoFile})
SpecGate == InitGate /\ [][Next]_vars /\ WF_vars(Next)

\* a run of the desktop application over a CSV file, which the window can
\* stop at any moment
UnreadableDesktopSources ==
    {[format |-> "desktop", rows |-> <<>>, fault |-> "missing"],
     [format |-> "desktop", rows |-> <<"https://a.io">>, fault |-> "no_column"]}
InitDesktop ==
    InitWith(Sources({"desktop"}, {"https://a.io", "https://b.io"}, 0, MaxRows)
                 \cup UnreadableDesktopSources,
             Configs({1, MaxBatchSize}, 1..MaxConcurrent, {1}), BatchTransports,
             {NoFile})
\* the state _handle_progress_update asks the StateManager for
RequestedState(msg_type) ==
    CASE msg_type = "complete" -> "COMPLETED"
      [] msg_type = "error" -> "ERROR"
      [] msg_type = "stopped" -> "IDLE"
      [] OTHER -> None

\* StateManager.set_state: an invalid transition raises ValueError and leaves
\* the state; the handler's exception ends _poll_progress before it has
\* scheduled the next poll
HandleProgressUpdate(w, msg_type) ==
    LET to == RequestedState(msg_type) IN
    IF to = None
    THEN [w EXCEPT !.handled = @ + 1]
    ELSE IF is_valid_transition(w.state, to)
    THEN [w EXCEPT !.handled = @ + 1, !.state = to]
    ELSE [w EXCEPT !.handled = @ + 1, !.raised = TRUE]

\* _poll_progress: takes one update from the queue, if there is one, and
\* handles it
Poll ==
    /\ source.format = "desktop"
    /\ ~window.raised
    /\ window.handled < Len(progress_queue)
    /\ window' = HandleProgressUpdate(window, progress_queue[window.handled + 1])
    /\ UNCHANGED <<web, config, source, transport, pc, batch_num, pos, tasks,
                   semaphore, session, checked_urls, stats, pstats, results,
                   output_file, progress, chunks, all_results, fetched,
                   stop_event, progress_queue>>

NextDesktop ==
    \/ Next
    \/ Stop
    \/ Poll
SpecDesktop == InitDesktop /\ [][NextDesktop]_vars

(***************************************************************************)
(* The web application: upload, start, status and the progress stream      *)
(***************************************************************************)
\* everything the web endpoints leave alone
run_vars == <<config, source, transport, pc, batch_num, pos, tasks, semaphore,
              session, checked_urls, stats, pstats, results, output_file,
              progress, chunks, all_results, fetched, stop_event,
              progress_queue, window>>

\* upload_file: save_upload draws a new job id, and create_job registers it
\* in the JobManager of upload.py
UploadFile ==
    /\ Len(web.responses) < MaxRequests
    /\ \E j \in JobIds \ web.issued :
           web' = [web EXCEPT
                      !.issued = @ \cup {j},
                      !.managers[JobManagerOf("upload")] = create_job(@, j),
                      !.responses = Append(@, Answer("upload", j, "created"))]
    /\ UNCHANGED run_vars

\* start_processing: 404 when get_job finds no job, else process_job is
\* added to the background tasks
StartProcessing(j) ==
    /\ Len(web.responses) < MaxRequests
    /\ LET job == get_job(web.managers[JobManagerOf("process")], j) IN
       IF job = None
       THEN web' = [web EXCEPT
                       !.responses = Append(@, Answer("start", j, "404"))]
       ELSE web' = [web EXCEPT
                       !.background = @ \cup {j},
                       !.responses = Append(@, Answer("start", j, "started"))]
    /\ UNCHANGED run_vars

\* get_status: 404 when get_job finds no job, else the job
GetStatus(j) ==
    /\ Len(web.responses) < MaxRequests
    /\ LET job == get_job(web.managers[JobManagerOf("process")], j) IN
       web' = [web EXCEPT
                  !.responses = Append(@, Answer("status", j,
                                    IF job = None THEN "404" ELSE job))]
    /\ UNCHANGED run_vars

\* stream_progress: the StreamingResponse over event_generator is returned
StreamProgress(j) ==
    /\ Len(web.responses) < MaxRequests
    /\ web.streams[j] = "none"
    /\ web' = [web EXCEPT !.streams[j] = "open"]
    /\ UNCHANGED run_vars

\* one turn of event_generator's loop: get_progress returns None for a job
\* without a queue, and the stream says 'Job not found' and ends; else it
\* returns the next update of the queue, or the job as it is after the
\* timeout, and the stream ends on completed or failed
EventGenerator(j) ==
    /\ Len(web.responses) < MaxRequests
    /\ web.streams[j] = "open"
    /\ LET name == JobManagerOf("sse")
           manager == web.managers[name]
           queue == manager.progress_queues[j]
           update == IF queue.items # <<>> THEN Head(queue.items)
                       ELSE manager.jobs[j]
       IN
       IF ~queue.exists
       THEN web' = [web EXCEPT
                       !.streams[j] = "closed",
                       !.responses = Append(@, Answer("sse", j, "Job not found"))]
       ELSE web' = [web EXCEPT
                       !.managers[name].progress_queues[j].items =
                           IF queue.items # <<>> THEN Tail(@) ELSE @,
                       !.streams[j] = IF update \in {"completed", "failed"}
                                      THEN "closed" ELSE "open",
                       !.responses = Append(@, Answer("sse", j, update))]
    /\ UNCHANGED run_vars

NextWeb ==
    \/ UploadFile
    \/ \E j \in JobIds : StartProcessing(j)
    \/ \E j \in JobIds : GetStatus(j)
    \/ \E j \in JobIds : StreamProgress(j)
    \/ \E j \in JobIds : EventGenerator(j)

\* the web application with nothing running in it
InitWeb ==
    InitWith({[format |-> "csv", rows |-> <<>>, fault |-> "none"]},
             Configs({1}, {1}, {1}), {{Response(200, FALSE)}}, {NoFile})
SpecWeb == InitWeb /\ [][NextWeb]_vars

(***************************************************************************)
(* Properties of one check (check_website)                                 *)
(***************************************************************************)
TaskIds == 1..Len(tasks)

\* every GET of the task so far raised an exception of class cls
AllRaised(t, cls) ==
    \A p \in 1..Len(t.hist) : t.hist[p].kind = "exception" /\ t.hist[p].cls = cls

HasReturned(t) == t.pc = "done" /\ t.ret.kind = "result"

\* C2: a check whose every attempt times out makes exactly retry_count + 1
\* GET attempts and then returns TIMEOUT / TIMEOUT_ERROR with
\* retry_count equal to the configured retry_count.
C2_TimeoutAttempts ==
    \A i \in TaskIds :
        LET t == tasks[i] IN
        AllRaised(t, "TimeoutError") =>
            /\ Len(t.hist) <= config.retry_count + 1
            /\ Len(t.hist) = config.retry_count + 1 => t.pc = "done"
            /\ (t.pc = "done" /\ t.hist # <<>>) =>
                   /\ Len(t.hist) = config.retry_count + 1
                   /\ t.ret.kind = "result"
                   /\ t.ret.result.status_result = "TIMEOUT"
                   /\ t.ret.result.error_category = "TIMEOUT_ERROR"
                   /\ t.ret.result.retry_count = config.retry_count

C2_Witness ==
    \E i \in TaskIds :
        /\ config.retry_count = 2
        /\ AllRaised(tasks[i], "TimeoutError")
        /\ Len(tasks[i].hist) = 3
        /\ HasReturned(tasks[i])
        /\ tasks[i].ret.result.status_result = "TIMEOUT"
        /\ tasks[i].ret.result.retry_count = 2

\* C8: a check whose every attempt fails with aiohttp.ClientSSLError is
\* retried up to retry_count and ends as ERROR with category SSL_ERROR.
C8_SslCategory ==
    \A i \in TaskIds :
        LET t == tasks[i] IN
        (AllRaised(t, "ClientSSLError") /\ t.pc = "done" /\ t.hist # <<>>) =>
            /\ Len(t.hist) = config.retry_count + 1
            /\ t.ret.kind = "result"
            /\ t.ret.result.status_result = "ERROR"
            /\ t.ret.result.error_category = "SSL_ERROR"

\* C9: when the first j attempts fail and attempt j + 1 receives HTTP 200,
\* the check returns ACTIVE, status_code 200, no error category, final_url
\* the URL of the response, and retry_count = j.
C9_ActiveAfterRetries ==
    \A i \in TaskIds :
        LET t == tasks[i]
            last == t.hist[Len(t.hist)]
        IN
        (t.hist # <<>> /\ last.kind = "response" /\ last.status = 200) =>
            /\ \A p \in 1..(Len(t.hist) - 1) : t.hist[p].kind = "exception"
            /\ HasReturned(t)
            /\ t.ret.result.status_result = "ACTIVE"
            /\ t.ret.result.status_code = 200
            /\ t.ret.result.error_category = None
            /\ t.ret.result.final_url =
                   (IF last.redirected THEN RedirectTarget(t.n) ELSE t.n)
            /\ t.ret.result.retry_count = Len(t.hist) - 1

C9_Witness ==
    \E i \in TaskIds :
        LET t == tasks[i] IN
        /\ Len(t.hist) = 3
        /\ t.hist[1].kind = "exception" /\ t.hist[2].kind = "exception"
        /\ t.hist[1].cls # t.hist[2].cls
        /\ t.hist[3] = Response(200, TRUE)
        /\ HasReturned(t)
        /\ t.ret.result.status_result = "ACTIVE"
        /\ t.ret.result.retry_count = 2

\* C10: a response whose status is not 200 ends the check at once, as
\* INACTIVE / HTTP_ERROR with the status received and the message
\* "HTTP <status>"; no attempt follows it, whatever retry_count is.
C10_HttpErrorEndsCheck ==
    \A i \in TaskIds :
        LET t == tasks[i] IN
        \A p \in 1..Len(t.hist) :
            (t.hist[p].kind = "response" /\ t.hist[p].status # 200) =>
                /\ p = Len(t.hist)
                /\ HasReturned(t)
                /\ t.ret.result.status_result = "INACTIVE"
                /\ t.ret.result.error_category = "HTTP_ERROR"
                /\ t.ret.result.status_code = t.hist[p].status
                /\ t.ret.result.error_message = "HTTP " \o ToString(t.hist[p].status)

C10_Witness ==
    \E i \in TaskIds :
        LET t == tasks[i] IN
        /\ config.retry_count = 2
        /\ t.hist = <<Response(404, FALSE)>>
        /\ HasReturned(t)
        /\ t.ret.result.status_result = "INACTIVE"
        /\ t.ret.result.error_message = "HTTP 404"


(***************************************************************************)
(* Properties of a batch (check_websites_batch)                            *)
(***************************************************************************)
\* the checks that passed the gate and have not returned: in a GET or in a
\* back-off sleep
InFlight == {i \in TaskIds : tasks[i].pc \in {"get", "sleep"}}

\* check_websites_batch has returned for the current chunk
BatchReturned == pc # "gather" /\ batch_num >= 1

\* C1: at most min(max_concurrent, len(urls)) checks of a batch are past the
\* admission gate and not yet returned, back-off sleeps included.
C1_ConcurrencyBound ==
    Cardinality(InFlight) <= Min(config.max_concurrent, Len(tasks))

C1_Witness ==
    /\ config.max_concurrent < Len(tasks)
    /\ Cardinality(InFlight) = config.max_concurrent
    /\ \E i \in TaskIds : tasks[i].pc = "sleep"
    /\ \E i \in TaskIds : tasks[i].pc = "get"
    /\ \E i \in TaskIds : tasks[i].pc = "wait"

\* C3: within one run at most one check_website call issues HTTP requests
\* for a given normalized URL.
C3_FetchedOnce ==
    \A c, d \in fetched : c[3] = d[3] => c = d

\* C4: check_websites_batch returns exactly len(urls) results and result i
\* has url = urls[i], whatever the completion order and also when checks
\* raise.
C4_OrderPreserved ==
    BatchReturned =>
        /\ Len(results) = Len(chunks[batch_num])
        /\ \A i \in 1..Len(results) : results[i].url = chunks[batch_num][i]

C4_Witness ==
    /\ BatchReturned
    /\ Len(results) = 3
    /\ tasks[1].rank = 3 /\ tasks[2].rank = 1 /\ tasks[3].rank = 2
    /\ tasks[2].ret.kind = "exception"
    /\ results[1].url # results[3].url
    /\ results[1].status_result = "TIMEOUT"
    /\ results[3].status_result = "ACTIVE"

CheckResultFields ==
    {"url", "normalized_url", "status_result", "status_code", "error_category",
     "error_message", "retry_count", "final_url"}

\* the URLs of the source that are handed to the checker
InputUrls ==
    IF source.format \in {"direct", "single"} THEN source.rows
    ELSE dropna(source.rows)

\* C5: whatever a single check ends with, an exception that escapes
\* check_website included, check_websites_batch returns a terminal
\* CheckResult for that URL together with the results of the others, and
\* the run goes on until every chunk has been checked.
C5_FailureDoesNotAbort ==
    /\ BatchReturned =>
           /\ Len(results) = Len(tasks)
           /\ \A i \in 1..Len(results) :
                  /\ DOMAIN results[i] = CheckResultFields
                  /\ results[i].status_result \in StatusResult
                  /\ results[i].url = tasks[i].url
                  /\ tasks[i].ret.kind = "exception" =>
                         /\ results[i].status_result = "ERROR"
                         /\ results[i].error_category = "UNKNOWN_ERROR"
                  /\ tasks[i].ret.kind = "result" => results[i] = tasks[i].ret.result
    /\ pc = "done" =>
           /\ Len(all_results) = Len(InputUrls)
           /\ \A i \in 1..Len(all_results) :
                  /\ DOMAIN all_results[i] = CheckResultFields
                  /\ all_results[i].url = InputUrls[i]

C5_Witness ==
    /\ pc = "done"
    /\ \E i \in TaskIds : tasks[i].ret.kind = "exception"
    /\ \E i \in 1..Len(results) : results[i].status_result = "TIMEOUT"
    /\ \E i \in 1..Len(results) : results[i].status_result = "ACTIVE"

(***************************************************************************)
(* Properties of the orchestrator                                          *)
(***************************************************************************)
\* C6: N URLs and batch_size k give exactly ceil(N / k) chunks, each of
\* size k except possibly the last, and the results of all chunks, before
\* filtering, are N entries, one per input URL, in input order.
C6_ChunkCount ==
    pc = "done" =>
        LET N == Len(InputUrls)
            k == config.batch_size
        IN
        /\ Len(chunks) * k >= N
        /\ (Len(chunks) - 1) * k < N \/ (N = 0 /\ chunks = <<>>)
        /\ \A b \in 1..(Len(chunks) - 1) : Len(chunks[b]) = k
        /\ Len(all_results) = N
        /\ \A i \in 1..Len(all_results) : all_results[i].url = InputUrls[i]

RECURSIVE Concat(_)
Concat(seqs) == IF seqs = <<>> THEN <<>> ELSE Head(seqs) \o Concat(Tail(seqs))

\* C7: a chunk is dispatched only when every check of the chunk before it
\* has returned and that chunk's results have been saved and counted.
C7_ChunksSequential ==
    [][batch_num' # batch_num =>
          /\ \A i \in TaskIds : tasks[i].pc = "done"
          /\ Len(all_results) = Len(Concat(chunks))
          /\ pstats.batches_processed = batch_num
          /\ pstats.active_websites + pstats.inactive_websites
                 + pstats.error_websites = Len(all_results)
          /\ output_file.rows =
                 FilterResults(all_results, config.include_inactive,
                               config.include_errors)]_vars

C7_Witness ==
    /\ batch_num = 2
    /\ pc = "gather"
    /\ InFlight # {}
    /\ pstats.batches_processed = 1
    /\ Len(all_results) = Len(chunks[1])
    /\ Len(chunks[1]) = 2

(***************************************************************************)
(* Properties of the guards of check_website                               *)
(***************************************************************************)
\* check_website of task i is entered in this step
Entered(i) ==
    /\ batch_num' = batch_num
    /\ i \in TaskIds
    /\ tasks[i].pc = "wait"
    /\ tasks'[i].pc # "wait"

\* C11: when normalize_url rejects the input, check_website returns at once
\* INVALID_URL / INVALID_URL_ERROR with status_code 0, an empty
\* normalized_url and retry_count 0; the call creates no session, issues no
\* GET and makes no retry.
C11_InvalidUrlImmediate ==
    [][\A i \in 1..Len(tasks') :
          LET t == tasks'[i] IN
          (~normalize_raises(t.url) /\ normalize_url(t.url) = None
              /\ t.pc # "wait") =>
              /\ t.pc = "done"
              /\ t.hist = <<>>
              /\ t.attempt = 0
              /\ t.ret.kind = "result"
              /\ t.ret.result.status_result = "INVALID_URL"
              /\ t.ret.result.error_category = "INVALID_URL_ERROR"
              /\ t.ret.result.status_code = 0
              /\ t.ret.result.normalized_url = ""
              /\ t.ret.result.retry_count = 0
              /\ \A f \in fetched' : ~(f[1] = batch_num' /\ f[2] = i)
              /\ Entered(i) => (session' = session /\ fetched' = fetched)]_vars

C11_Witness ==
    /\ source.format = "single"
    /\ \E i \in TaskIds :
           /\ tasks[i].url = "not-a-url"
           /\ HasReturned(tasks[i])
           /\ tasks[i].ret.result.status_result = "INVALID_URL"
    /\ ~session
    /\ fetched = {}

\* the CheckResults that check_website and check_websites_batch have returned
ReturnedResults ==
    {tasks[i].ret.result : i \in {j \in TaskIds : HasReturned(tasks[j])}}
        \cup {all_results[i] : i \in 1..Len(all_results)}

\* C12: every CheckResult returned by check_website or check_websites_batch
\* has 0 <= retry_count <= the configured retry_count, under every
\* configuration the checker accepts.
C12_RetryCountInRange ==
    \A r \in ReturnedResults :
        0 <= r.retry_count /\ r.retry_count <= config.retry_count

\* C13: in every CheckResult the checker produces, error_category is None
\* exactly when status_result is ACTIVE: every INACTIVE, ERROR, TIMEOUT and
\* INVALID_URL result carries a category, no ACTIVE result does.
C13_CategoryIffNotActive ==
    \A r \in ReturnedResults :
        /\ r.status_result \in StatusResult
        /\ r.error_category \in ErrorCategory \cup {None}
        /\ (r.error_category = None) <=> (r.status_result = "ACTIVE")

C13_Witness ==
    /\ pc = "done"
    /\ \E i \in TaskIds :
           /\ Len(tasks[i].hist) = 2
           /\ tasks[i].hist[1].kind = "exception"
           /\ tasks[i].hist[2].kind = "exception"
           /\ HasReturned(tasks[i])
           /\ all_results = <<tasks[i].ret.result>>
           /\ all_results[1].status_result = "ERROR"
           /\ all_results[1].error_category = "DNS_ERROR"

\* C14: a check_website call whose normalized URL is already in
\* checked_urls returns ERROR / UNKNOWN_ERROR "Already processed" with
\* retry_count 0 and issues no GET; the earlier result is not replayed.
C14_DuplicateGuard ==
    [][\A i \in TaskIds :
          (/\ Entered(i)
           /\ ~normalize_raises(tasks[i].url)
           /\ normalize_url(tasks[i].url) # None
           /\ normalize_url(tasks[i].url) \in checked_urls) =>
              LET t == tasks'[i] IN
              /\ t.pc = "done"
              /\ t.hist = <<>>
              /\ t.ret.kind = "result"
              /\ t.ret.result.status_result = "ERROR"
              /\ t.ret.result.error_category = "UNKNOWN_ERROR"
              /\ t.ret.result.error_message = "Already processed"
              /\ t.ret.result.status_code = 0
              /\ t.ret.result.retry_count = 0
              /\ t.ret.result.normalized_url = normalize_url(tasks[i].url)
              /\ fetched' = fetched
              /\ checked_urls' = checked_urls
              /\ stats' = stats]_vars

C14_Witness ==
    /\ BatchReturned
    /\ \E i, j \in 1..Len(results) :
           /\ i < j
           /\ results[i].status_result = "ACTIVE"
           /\ results[j].error_message = "Already processed"
           /\ results[j].status_result = "ERROR"
           /\ results[i].normalized_url = results[j].normalized_url
           /\ results[i].url # results[j].url
           /\ \A f \in fetched : f[2] # j

\* C15: every check_website call that got past normalization and the
\* duplicate guard has added its normalized URL to checked_urls by the time
\* it returns, whether it ends ACTIVE, INACTIVE, TIMEOUT or ERROR.
C15_CheckedOnReturn ==
    \A f \in fetched :
        (f[1] < batch_num \/ tasks[f[2]].pc = "done") => f[3] \in checked_urls

(***************************************************************************)
(* Properties of the back-off                                              *)
(***************************************************************************)
\* C16: after a failed attempt a (counted from 0) that is not the last one,
\* check_website sleeps retry_delay * backoff_factor^a before attempt a + 1,
\* the same for every kind of failure; no sleep follows the final attempt,
\* so a check that exhausts its retries has slept exactly retry_count times.
C16_BackoffSleeps ==
    \A i \in TaskIds :
        LET t == tasks[i]
            n == Len(t.sleeps)
        IN
        /\ n <= config.retry_count
        /\ n >= 1 => t.sleeps[1][1] = RetryDelayMs * t.sleeps[1][2]
        /\ \A p \in 1..(n - 1) :
               t.sleeps[p + 1][1] * t.sleeps[p][2] * BackoffDen
                   = t.sleeps[p][1] * t.sleeps[p + 1][2] * BackoffNum
        /\ \A p \in 1..n : t.hist[p].kind = "exception"
        /\ t.pc = "sleep" => n = Len(t.hist)
        /\ t.pc = "get" => n = Len(t.hist) /\ n = t.attempt
        /\ (t.pc = "done" /\ t.hist # <<>>) => n = Len(t.hist) - 1
        /\ (t.pc = "done" /\ Len(t.hist) = config.retry_count + 1) =>
               n = config.retry_count

C16_Witness ==
    \E i \in TaskIds :
        LET t == tasks[i] IN
        /\ config.retry_count = 2
        /\ t.hist = <<Raised("TimeoutError", ""),
                      Raised("ClientSSLError", "certificate verify failed"),
                      Raised("ServerDisconnectedError", "Server disconnected")>>
        /\ t.pc = "done"
        /\ t.sleeps = <<(<<1000, 1>>), (<<3000, 2>>)>>

(***************************************************************************)
(* Properties of the output file                                           *)
(***************************************************************************)
\* the entries of rs at the indices S, in the order of rs
SubseqAt(rs, S) ==
    [k \in 1..Cardinality(S) |->
        rs[CHOOSE i \in S : Cardinality({j \in S : j <= i}) = k]]

\* the index sets the flags allow save_results_batch to write: every ACTIVE
\* result, the INACTIVE ones iff include_inactive, the ERROR and TIMEOUT
\* ones iff include_errors
Writable(rs) ==
    {S \in SUBSET (1..Len(rs)) :
        \A i \in 1..Len(rs) :
            LET st == rs[i].status_result IN
            /\ st = "ACTIVE" => i \in S
            /\ st = "INACTIVE" => (i \in S <=> config.include_inactive)
            /\ st \in {"ERROR", "TIMEOUT"} => (i \in S <=> config.include_errors)}

\* C17: save_results_batch writes every ACTIVE result whatever the flags,
\* the INACTIVE results iff include_inactive and the ERROR and TIMEOUT
\* results iff include_errors, in their original relative order; with both
\* flags false a mixed batch leaves only its ACTIVE rows.
C17_FilterByFlags ==
    [][(pc = "gather" /\ pc' = "pause") =>
          \E S \in Writable(results') :
              output_file'.rows \in {SubseqAt(results', S),
                                     output_file.rows \o SubseqAt(results', S)}]_vars

C17_Witness ==
    /\ pc = "pause"
    /\ batch_num = 1
    /\ ~config.include_inactive /\ ~config.include_errors
    /\ Len(results) = 3
    /\ results[1].status_result = "INACTIVE"
    /\ results[2].status_result = "ERROR"
    /\ results[3].status_result = "ACTIVE"
    /\ output_file.rows = <<results[3]>>

\* C18: the first chunk creates or overwrites the output file and every
\* later chunk appends, so after process_file the file holds exactly the
\* kept results of this run's chunks, in chunk order, and nothing that was
\* in the file before the run, also when the first chunk keeps no result.
C18_CreateThenAppend ==
    (pc = "done" /\ source.format \in FileFormats /\ batch_num >= 1) =>
        \E S \in Writable(all_results) :
            /\ output_file.rows = SubseqAt(all_results, S)
            /\ OldRow \notin {output_file.rows[k] : k \in 1..Len(output_file.rows)}

(***************************************************************************)
(* Properties of the checkpoint                                            *)
(***************************************************************************)
\* the orchestrator has finished chunk batch_num in this step
ChunkDone == pc = "gather" /\ pc' = "pause"

\* C19: in every orchestrator run a checkpoint is written after chunk b
\* whenever b is a multiple of save_interval, once that chunk's results are
\* saved and counted, and no checkpoint is written after any other chunk.
C19_CheckpointEveryInterval ==
    [][/\ (ChunkDone /\ batch_num % config.save_interval = 0) =>
              /\ progress'.exists
              /\ progress'.content.current_batch = ToString(batch_num)
              /\ pstats'.batches_processed = batch_num
              /\ Len(all_results') = Len(Concat(chunks))
       /\ (ChunkDone /\ batch_num % config.save_interval # 0) =>
              progress' = progress
       /\ progress' # progress => ChunkDone]_vars

\* C20: when resume is requested and a checkpoint exists at the start of
\* process_file, the input rows the checkpoint accounts for are skipped, so
\* the chunks it records as processed are not dispatched again.
C20_ResumeSkipsProcessed ==
    [][(/\ pc = "start" /\ pc' = "gather"
        /\ config.resume_on_failure
        /\ progress.exists) =>
          LET done == CHOOSE k \in 0..MaxRows :
                          ToString(k) = progress.content.current_batch
              passed == Len(dropna(SubSeq(source.rows, 1, pos')))
          IN
          /\ passed - Len(chunks'[1]) >= done * config.batch_size
          /\ \A p \in 1..Len(progress.content.processed_batches) :
                 ToString(batch_num') # progress.content.processed_batches[p]]_vars

(***************************************************************************)
(* Properties of the run: cancellation, failures, termination, counters    *)
(***************************************************************************)
\* a new check is issued: a task that waited at the gate enters check_website
\* (the retries of a check in flight are that check finishing)
IssuesCheck ==
    \E i \in 1..Len(tasks) :
        /\ i \in 1..Len(tasks')
        /\ tasks[i].pc = "wait"
        /\ tasks'[i].pc # "wait"

\* C21: once stop_event is set the run starts no new chunk and issues no new
\* check, and the rows written to the output file before it stay there.
C21_StopIssuesNothing ==
    [][stop_event =>
          /\ chunks' = chunks
          /\ ~IssuesCheck
          /\ \E rest \in {SubSeq(output_file'.rows, Len(output_file.rows) + 1,
                                  Len(output_file'.rows))} :
                 output_file'.rows = output_file.rows \o rest]_vars

\* the chunk's save_results_batch raised inside its try block
SaveFailed ==
    /\ pc = "gather"
    /\ pc' # "gather"
    /\ SaveError(output_file, results', config.include_inactive,
                 config.include_errors) # "none"

\* C22: when writing a chunk to the output file fails, process_file raises to
\* its caller: the run goes to no later chunk and returns no statistics.
C22_SinkFailureFatal == [][SaveFailed => pc' = "failed"]_vars

\* no check was issued and nothing was written
NothingChecked ==
    /\ chunks = <<>>
    /\ all_results = <<>>
    /\ \A i \in 1..Len(tasks) : tasks[i].pc = "wait"
    /\ ~output_file.exists

\* C23 as stated: a source that cannot be read (file missing or unreadable,
\* unsupported format, URL column missing) never lets the run complete
\* normally: process_file raises before any check is issued.
C23_ReadFailureFatal ==
    source.fault # "none" => pc \in {"start", "failed"} /\ NothingChecked

\* C23, amended: a missing or unreadable file and an unsupported format make
\* process_file raise before any check is issued; a file without the URL
\* column is read as an empty source, and the run completes normally without
\* a check and without a chunk.
C23_ReadFailure ==
    /\ source.fault \in {"missing", "unsupported"} =>
           pc \in {"start", "failed"} /\ NothingChecked
    /\ source.fault = "no_column" =>
           pc \in {"start", "done"} /\ NothingChecked /\ batch_num = 0
    /\ pc = "failed" => source.fault \in {"missing", "unsupported"}

C23_Witness ==
    /\ pc = "failed"
    /\ source.fault = "unsupported"
    /\ source.rows # <<>>
    /\ ~session

\* C24: no run executes with a configuration outside the valid ranges: once
\* a chunk has been dispatched, max_concurrent is in 1..10000, retry_count in
\* 0..10, and batch_size and save_interval are positive.
C24_ConfigValidated ==
    batch_num >= 1 =>
        /\ config.max_concurrent \in 1..10000
        /\ config.retry_count \in 0..10
        /\ config.batch_size >= 1
        /\ config.save_interval >= 1

\* the statistics account for every URL read from the input
Accounted ==
    pstats.active_websites + pstats.inactive_websites + pstats.error_websites
        = Len(InputUrls)

\* C25: whatever the input and whatever the network does to each URL, the
\* run ends, and the statistics it returns account for every URL read.
C25_RunCompletes == <>(pc = "done" /\ Accounted)

C25_Witness ==
    /\ pc = "done"
    /\ Accounted
    /\ Len(InputUrls) = MaxRows
    /\ pstats.active_websites >= 1
    /\ pstats.error_websites >= 2
    /\ \E k \in 1..Len(all_results) : all_results[k].status_result = "TIMEOUT"

\* the checks of the chunk that returned a result
Completed == {i \in TaskIds : HasReturned(tasks[i])}

OutcomeCounters ==
    {"active_found", "inactive_found", "errors", "timeouts", "invalid_urls"}

RECURSIVE SumOver(_, _)
SumOver(st, counters) ==
    IF counters = {} THEN 0
    ELSE LET c == CHOOSE x \in counters : TRUE IN
         st[c] + SumOver(st, counters \ {c})

\* C26: total_checked is the number of checks that returned a result, and
\* it is the sum of active_found, inactive_found, errors, timeouts and
\* invalid_urls.
C26_CountersAgree ==
    batch_num <= 1 =>
        /\ stats.total_checked = Cardinality(Completed)
        /\ stats.total_checked = SumOver(stats, OutcomeCounters)

\* the number of times the task has executed "self.stats[counter] += 1", read
\* off its GETs: a response counts total_checked and active_found or
\* inactive_found, an exception on the last attempt counts timeouts or
\* errors, a URL that does not normalize counts invalid_urls
Increments(t, counter) ==
    IF ~HasReturned(t) THEN 0
    ELSE IF t.hist = <<>>
    THEN (IF counter = "invalid_urls" /\ t.ret.result.status_result = "INVALID_URL"
          THEN 1 ELSE 0)
    ELSE LET last == t.hist[Len(t.hist)] IN
         IF last.kind = "response"
         THEN (IF counter \in {"total_checked",
                               IF last.status = 200 THEN "active_found"
                                                    ELSE "inactive_found"}
               THEN 1 ELSE 0)
         ELSE IF /\ Len(t.sleeps) < Len(t.hist)
                 /\ counter = (IF last.cls = "TimeoutError" THEN "timeouts"
                                                            ELSE "errors")
         THEN 1 ELSE 0

RECURSIVE IncrementsUpTo(_, _)
IncrementsUpTo(k, counter) ==
    IF k = 0 THEN 0
    ELSE Increments(tasks[k], counter) + IncrementsUpTo(k - 1, counter)

\* C27: whatever the interleaving of the checks of a batch, no update of a
\* counter or of checked_urls is lost: every counter is the number of
\* increments the checks have performed, and checked_urls holds the URL of
\* every check that added one.
C27_NoLostUpdate ==
    batch_num = 1 =>
        /\ \A c \in DOMAIN stats : stats[c] = IncrementsUpTo(Len(tasks), c)
        /\ checked_urls =
               {tasks[i].n : i \in {j \in TaskIds :
                                       Increments(tasks[j], "total_checked") = 1}}

C27_Witness ==
    /\ pc = "gather"
    /\ config.max_concurrent >= 2
    /\ Len(tasks) >= 2
    /\ stats.timeouts = 2
    /\ Len(tasks[1].hist) = 2 /\ Len(tasks[2].hist) = 2
    /\ tasks[2].rank < tasks[1].rank

\* C28: after every chunk the three counters of ProcessingStats add up to
\* the number of results returned so far, every outcome other than ACTIVE and
\* INACTIVE counted as an error, and batches_processed is the number of
\* chunks completed; at the end of the run the sum is the number of URLs read.
C28_ProcessingStatsAddUp ==
    /\ pc \in {"pause", "done"} =>
           /\ pstats.active_websites = CountStatus(all_results, {"ACTIVE"})
           /\ pstats.inactive_websites = CountStatus(all_results, {"INACTIVE"})
           /\ pstats.active_websites + pstats.inactive_websites
                  + pstats.error_websites = Len(all_results)
           /\ pstats.batches_processed = Len(chunks)
    /\ pc = "done" => Accounted

C28_Witness ==
    /\ pc = "pause"
    /\ pstats.batches_processed = 2
    /\ pstats.active_websites = 1
    /\ pstats.error_websites = 2
    /\ \E k \in 1..Len(all_results) : all_results[k].status_result = "INVALID_URL"
    /\ \E k \in 1..Len(all_results) : all_results[k].status_result = "TIMEOUT"

(***************************************************************************)
(* Properties of normalize_url                                             *)
(***************************************************************************)
\* C29: a raw URL whose host is a loopback, link-local or private literal,
\* with or without scheme, port and path, is rejected by normalize_url, and
\* the check of it sends no request: it returns INVALID_URL at once.
C29_UnsafeHostRejected ==
    \A i \in TaskIds :
        LET t == tasks[i] IN
        t.url \in UrlsOf(UnsafeHosts) =>
            /\ normalize_url(t.url) = None
            /\ t.hist = <<>>
            /\ t.pc \in {"wait", "done"}
            /\ fetched = {}
            /\ HasReturned(t) => t.ret.result.status_result = "INVALID_URL"

C29_Witness ==
    /\ pc = "done"
    /\ Len(tasks) = 1
    /\ tasks[1].url = "http://192.168.1.1:8080/admin"
    /\ HasReturned(tasks[1])
    /\ tasks[1].ret.result.status_result = "INVALID_URL"
    /\ fetched = {}

\* C30: normalize_url turns a bare domain with a plausible TLD, and a string
\* that starts with www., into the https URL of the lowercased host:
\* "example.com" gives "https://example.com" and "WWW.EXAMPLE.COM" gives
\* "https://www.example.com".
C30_BareDomainToHttps ==
    \A i \in TaskIds :
        tasks[i].url \in PublicHosts =>
            normalize_url(tasks[i].url) = "https://" \o str_lower(tasks[i].url)

\* C31: normalize_url is idempotent: normalizing a URL it has accepted gives
\* the same string again.
C31_NormalizeIdempotent ==
    \A i \in TaskIds :
        LET n == normalize_url(tasks[i].url) IN
        n # None => normalize_url(n) = n

\* C32: the admission gate of check_websites_batch never deadlocks: under
\* every max_concurrent the checker accepts, every check that waits at the
\* gate eventually passes it.
C32_GateNeverDeadlocks ==
    \A i \in 1..MaxRows :
        (pc = "gather" /\ i <= Len(tasks) /\ tasks[i].pc = "wait")
            ~> (pc # "gather" \/ (i <= Len(tasks) /\ tasks[i].pc # "wait"))

(***************************************************************************)
(* Properties of the desktop run and its window                            *)
(***************************************************************************)
TerminalMessages == {"complete", "stopped", "error"}

\* the positions of the terminal messages on the queue
TerminalPositions ==
    {p \in 1..Len(progress_queue) : progress_queue[p] \in TerminalMessages}

\* C33: a desktop run that has ended has put exactly one terminal message on
\* the queue, as the last message: "stopped" without "complete" when it was
\* stopped, a single "error" when it failed, "complete" otherwise.
C33_OneTerminalMessage ==
    (source.format = "desktop" /\ pc \in {"done", "failed"}) =>
        /\ TerminalPositions = {Len(progress_queue)}
        /\ Sent(progress_queue, "stopped") => ~Sent(progress_queue, "complete")
        /\ pc = "failed" <=> Sent(progress_queue, "error")

\* the run has ended and the window has handled all it could
WindowSettled ==
    /\ source.format = "desktop"
    /\ pc \in {"done", "failed"}
    /\ (window.raised \/ window.handled = Len(progress_queue))

\* C34: the window's handlers ask the StateManager only for transitions of
\* its table, so set_state never raises, and after the run's messages the
\* window is in ERROR for a failed run, IDLE for a stopped one and COMPLETED
\* otherwise.
C34_WindowTransitionsValid ==
    /\ ~window.raised
    /\ WindowSettled =>
           window.state = (IF pc = "failed" THEN "ERROR"
                           ELSE IF Sent(progress_queue, "stopped") THEN "IDLE"
                           ELSE "COMPLETED")

(***************************************************************************)
(* Properties of the output file and the progress file                     *)
(***************************************************************************)
\* the rows of the output file that this run wrote
RowsWritten ==
    Cardinality({k \in 1..Len(output_file.rows) : output_file.rows[k] # OldRow})

\* C35: no INVALID_URL result is ever written to the output file, whatever
\* the two output flags are, while update_stats counts it in error_websites;
\* with both flags true the file holds the processed results less the
\* INVALID_URL ones.
C35_InvalidUrlNeverWritten ==
    /\ \A k \in 1..Len(output_file.rows) :
           output_file.rows[k].status_result # "INVALID_URL"
    /\ pc \in {"pause", "done"} =>
           /\ pstats.error_websites
                  = CountStatus(all_results, {"ERROR", "TIMEOUT", "INVALID_URL"})
           /\ (config.include_inactive /\ config.include_errors) =>
                  RowsWritten
                      = Len(all_results) - CountStatus(all_results, {"INVALID_URL"})

C35_Witness ==
    /\ pc = "done"
    /\ config.include_inactive /\ config.include_errors
    /\ CountStatus(all_results, {"INVALID_URL"}) = 1
    /\ pstats.error_websites >= 1
    /\ RowsWritten = 2
    /\ pstats.active_websites + pstats.inactive_websites
           + pstats.error_websites = 3

\* C36: a failure to write the progress file is logged inside save_progress
\* and never leaves it: the run does not fail on it, goes on with the next
\* chunk and returns its statistics.
C36_CheckpointFailureSwallowed ==
    (source.fault = "none" /\ progress.fault # "none") => pc # "failed"

\* C37: the checkpoint written after chunk b lists every chunk 1..b in
\* processed_batches and b as current_batch, carries the checker's statistics
\* and the size of checked_urls of that moment, and load_progress returns the
\* processed_batches and current_batch that were written.
C37_CheckpointContent ==
    [][progress' # progress =>
          /\ progress'.content.processed_batches
                 = [k \in 1..batch_num |-> ToString(k)]
          /\ progress'.content.current_batch = ToString(batch_num)
          /\ progress'.content.stats = stats
          /\ progress'.content.checked_urls_count = Cardinality(checked_urls)
          /\ load_progress(progress')
                 = <<[k \in 1..batch_num |-> ToString(k)], ToString(batch_num)>>]_vars

(***************************************************************************)
(* Properties of the session                                               *)
(***************************************************************************)
\* C38: when process_file or process_dataframe has returned or raised, the
\* checker's session is closed and None, and no request is in flight without
\* a session: a checker without one creates it before the request.
C38_SessionReleased ==
    /\ pc \in {"done", "failed"} => ~session
    /\ \A i \in 1..Len(tasks) : tasks[i].pc = "get" => session

\* a run that raised in a chunk after a request on its session
C38_Witness ==
    /\ pc = "failed"
    /\ source.fault = "none"
    /\ progress.fault # "none"
    /\ fetched # {}
    /\ ~session

(***************************************************************************)
(* Properties of the web application                                       *)
(***************************************************************************)
\* the web application gives an answer about job j in this step
Answers(j) ==
    /\ Len(web'.responses) = Len(web.responses) + 1
    /\ web'.responses[Len(web'.responses)].job_id = j

\* C39: a job the upload endpoint has registered is found by the other
\* endpoints: start_processing and get_status do not answer 404 for it,
\* start_processing schedules its process_job, and its progress stream does
\* not end with 'Job not found'.
C39_UploadedJobVisible ==
    [][\A j \in web.issued :
          Answers(j) =>
              LET r == web'.responses[Len(web'.responses)] IN
              /\ r.answer \notin {"404", "Job not found"}
              /\ r.endpoint = "start" => j \in web'.background]_vars

====
